---- MODULE Spec2Model ----
(***************************************************************************)
(* MPPI optimizer (mppi::Optimizer): one evalControl tick, its retry loop, *)
(* the warm-started control sequence and the speed-limit constraints.      *)
(*                                                                         *)
(* Numbers.  Velocities are doubles in the program.  Here a velocity is an *)
(* exact rational: an integer numerator over a denominator `den` that is   *)
(* shared by all cells of a tensor.  One model unit is 0.025 m/s (or       *)
(* rad/s), so vx_max = 0.5 is 20 units.  Tensors are 1-based sequences:    *)
(* row 0 of the program is index 1 here.                                   *)
(***************************************************************************)
EXTENDS Integers, Sequences, FiniteSets, TLC

VARIABLES
    opt,        \* opt[i]: the Optimizer instance i (its fields, and its position in evalControl)
    counter,    \* the function-local `static size_t counter` of Optimizer::fallback
    env,        \* what the collaborators do in this run: the noise patterns, the critics'
                \* cost contributions, the host's setSpeedLimit calls
    util        \* the last call of a function of mppi::utils: its arguments and result

vars == <<opt, counter, env, util>>

(***************************************************************************)
(* Bounds of the model.                                                    *)
(***************************************************************************)
MaxTimeSteps == 3        \* time_steps H ranges over 2..MaxTimeSteps
BatchSize == 2           \* batch_size B
MaxIterationCount == 2   \* iteration_count ranges over 1..MaxIterationCount
MaxRetryLimit == 2       \* retry_attempt_limit ranges over 0..MaxRetryLimit
MaxPasses == 2           \* optimize iterations per instance over its ticks, retries aside
MaxSpeedLimitCalls == 2  \* setSpeedLimit calls per instance
MaxCostStep == 1         \* what the critics add to one trajectory's cost in one pass
MaxInits == 2            \* initialize calls per instance

(***************************************************************************)
(* Program constants.                                                      *)
(***************************************************************************)
NO_SPEED_LIMIT == 0
DefaultRetryAttemptLimit == 1
MinTurningRInv == 2      \* 1 / min_turning_r of the Ackermann model (min_turning_r = 0.5 m)
ModelDt == 200000        \* model_dt = 0.1 s, in units of 0.5e-6 s
Eps == 2                 \* eps = 1e-6 s of setOffset, in units of 0.5e-6 s

\* s.base_constraints as loaded by getParams: {vx_max, vy_max, wz_max}.
\* The first is the default (0.5, 0.5, 1.3), the second has vy_max = 0.3.
BaseConstraintSets ==
    { [vx |-> 20, vy |-> 20, wz |-> 52],
      [vx |-> 20, vy |-> 12, wz |-> 52] }

MotionModels == {"DiffDrive", "Omni", "Ackermann"}

\* Arguments (speed_limit, percentage) of the setSpeedLimit calls the host makes:
\* the sentinel under either flag, two percentages, two absolute limits.
SpeedLimitCalls ==
    { [speed_limit |-> NO_SPEED_LIMIT, percentage |-> TRUE],
      [speed_limit |-> NO_SPEED_LIMIT, percentage |-> FALSE],
      [speed_limit |-> 50, percentage |-> TRUE],
      [speed_limit |-> 25, percentage |-> TRUE],
      [speed_limit |-> 10, percentage |-> FALSE],
      [speed_limit |-> 5, percentage |-> FALSE] }

\* The noise rows NoiseGenerator::generate draws from (cvx, cvy, cwz), in model
\* units: large enough to leave the constraints on either side.
NoiseRows ==
    << [vx |-> 30, vy |-> -25, wz |-> 50],
       [vx |-> -6, vy |-> 8, wz |-> 50],
       [vx |-> 4, vy |-> 30, wz |-> -45] >>

NoisePatterns == 1..Len(NoiseRows)

(***************************************************************************)
(* Arithmetic helpers.                                                     *)
(***************************************************************************)
Abs(x) == IF x < 0 THEN -x ELSE x

Min2(a, b) == IF a < b THEN a ELSE b

Max2(a, b) == IF a > b THEN a ELSE b

RECURSIVE Gcd(_, _)
Gcd(a, b) == IF b = 0 THEN Abs(a) ELSE Gcd(b, a % b)

RECURSIVE GcdSet(_)
GcdSet(S) ==
    IF S = {} THEN 0
    ELSE LET x == CHOOSE y \in S : TRUE IN Gcd(x, GcdSet(S \ {x}))

RECURSIVE Pow2(_)
Pow2(n) == IF n = 0 THEN 1 ELSE 2 * Pow2(n - 1)

RECURSIVE SumTo(_, _)
\* f[1] + ... + f[n]
SumTo(f, n) == IF n = 0 THEN 0 ELSE f[n] + SumTo(f, n - 1)

\* xt::clip(x, lo, hi)
clip(x, lo, hi) == Min2(Max2(x, lo), hi)

(***************************************************************************)
(* Tensor layout.                                                          *)
(***************************************************************************)
isHolonomicModel(model) == model = "Omni"

isHolonomic(o) == isHolonomicModel(o.motion_model)

\* The control columns of the layout idx: cvx, cwz and, when holonomic, cvy.
Cols(holonomic) == IF holonomic THEN {"vx", "vy", "wz"} ELSE {"vx", "wz"}

ZeroRow(holonomic) == [c \in Cols(holonomic) |-> 0]

Batches == 1..BatchSize

ZeroControls(H, holonomic) == [t \in 1..H |-> ZeroRow(holonomic)]

(***************************************************************************)
(* Optimizer::reset.  Re-allocates the state and the control sequence to   *)
(* the current (B, H), zeroes them and the costs; it does not touch        *)
(* critics_data_ nor generated_trajectories_.  n_reset counts the          *)
(* "Optimizer reset" log lines of the current tick; after_reset holds      *)
(* until the tensors or the settings are written again.                    *)
(***************************************************************************)
reset(o) ==
    LET H == o.settings.time_steps
        holo == isHolonomic(o)
    IN  [o EXCEPT
            !.state = [controls |-> [b \in Batches |-> ZeroControls(H, holo)], den |-> 1,
                       dt |-> o.settings.model_dt],
            !.control_sequence = [data |-> ZeroControls(H, holo), den |-> 1],
            !.costs = [b \in Batches |-> 0],
            !.after_reset = TRUE,
            !.n_reset = @ + 1]

(***************************************************************************)
(* Optimizer::prepare.                                                     *)
(***************************************************************************)
prepare(o) ==
    [o EXCEPT !.costs = [b \in Batches |-> 0], !.fail_flag = FALSE]

(***************************************************************************)
(* NoiseGenerator::generate: pattern k gives cell (b, t) one of NoiseRows. *)
(***************************************************************************)
generate(o, k) ==
    [b \in Batches |->
        [t \in 1..o.settings.time_steps |->
            LET row == NoiseRows[((b + t + k) % Len(NoiseRows)) + 1]
            IN  [c \in Cols(isHolonomic(o)) |-> row[c]]]]

(***************************************************************************)
(* Optimizer::generateNoisedControls: controls = control_sequence + noise. *)
(***************************************************************************)
generateNoisedControls(o, k) ==
    LET U == o.control_sequence
        noise == generate(o, k)
    IN  [o EXCEPT
            !.state.controls = [b \in Batches |-> [t \in 1..o.settings.time_steps |->
                                   [c \in Cols(isHolonomic(o)) |->
                                       U.data[t][c] + noise[b][t][c] * U.den]]],
            !.state.den = U.den,
            !.after_reset = FALSE]

(***************************************************************************)
(* MotionModel::applyConstraints.  Ackermann bounds |wz| by                *)
(* |vx| / min_turning_r elementwise; DiffDrive and Omni do nothing.        *)
(***************************************************************************)
AckermannRow(row) ==
    IF Abs(row.wz) > Abs(row.vx) * MinTurningRInv
    THEN [row EXCEPT !.wz = (IF row.wz < 0 THEN -1 ELSE 1) * Abs(row.vx) * MinTurningRInv]
    ELSE row

motionModelApplyConstraints(model, controls) ==
    IF model = "Ackermann"
    THEN [b \in DOMAIN controls |-> [t \in DOMAIN controls[b] |-> AckermannRow(controls[b][t])]]
    ELSE controls

\* view = xt::clip(view, -limit, limit) on one column of the controls
ClipColumn(controls, col, limit) ==
    [b \in DOMAIN controls |-> [t \in DOMAIN controls[b] |->
        [controls[b][t] EXCEPT ![col] = clip(@, -limit, limit)]]]

\* Mutant of applyControlConstraints: clips against base_constraints.
applyControlConstraints_base(o) ==
    LET s == o.settings
        den == o.state.den
        c0 == o.state.controls
        c1 == IF isHolonomic(o) THEN ClipColumn(c0, "vy", s.base_constraints.vy * den) ELSE c0
        c2 == motionModelApplyConstraints(o.motion_model, c1)
        c3 == ClipColumn(c2, "vx", s.base_constraints.vx * den)
        c4 == ClipColumn(c3, "wz", s.base_constraints.wz * den)
    IN  [o EXCEPT !.state.controls = c4]

(***************************************************************************)
(* Optimizer::applyControlConstraints: clip vy (holonomic), then the       *)
(* motion model's constraints, then clip vx and wz.                        *)
(***************************************************************************)
applyControlConstraints(o) ==
    LET s == o.settings
        den == o.state.den
        c0 == o.state.controls
        c1 == IF isHolonomic(o) THEN ClipColumn(c0, "vy", s.constraints.vy * den) ELSE c0
        c2 == motionModelApplyConstraints(o.motion_model, c1)
        c3 == ClipColumn(c2, "vx", s.constraints.vx * den)
        c4 == ClipColumn(c3, "wz", s.constraints.wz * den)
    IN  [o EXCEPT !.state.controls = c4]

(***************************************************************************)
(* Optimizer::generateNoisedTrajectories (the controls part).              *)
(***************************************************************************)
generateNoisedTrajectories(o, k) ==
    applyControlConstraints(generateNoisedControls(o, k))

(***************************************************************************)
(* CriticManager::evalTrajectoriesScores.  Each critic adds its            *)
(* contribution to the costs in place and may set fail_flag to true; no    *)
(* critic clears it.  add[b] is what the critics add to trajectory b, hit  *)
(* whether one of them set the flag.  attempt_hit records that a critic    *)
(* set the flag during the current optimize attempt.                       *)
(***************************************************************************)
evalTrajectoriesScores(o, add, hit) ==
    [o EXCEPT !.costs = [b \in Batches |-> @[b] + add[b]],
              !.fail_flag = @ \/ hit,
              !.attempt_hit = @ \/ hit]

CostContributions == [Batches -> 0..MaxCostStep]

(***************************************************************************)
(* Optimizer::updateControlSequence.  The temperature is 1 / ln 2, so that *)
(* exp(-costs_normalized / temperature) = 2^(-costs_normalized) is         *)
(* rational; numerators and the sum are scaled by 2^(max costs_normalized).*)
(***************************************************************************)
MinCost(costs) == CHOOSE m \in {costs[b] : b \in Batches} : \A b \in Batches : m <= costs[b]

MaxCost(costs) == CHOOSE m \in {costs[b] : b \in Batches} : \A b \in Batches : m >= costs[b]

\* Weights that grow with the cost.
exponents_increasing(costs) ==
    [b \in Batches |-> Pow2(costs[b] - MinCost(costs))]

\* exponents, scaled by 2^(max - min)
exponents(costs) ==
    [b \in Batches |-> Pow2((MaxCost(costs) - MinCost(costs)) - (costs[b] - MinCost(costs)))]

\* A tensor with a shared denominator, reduced to lowest terms.
Reduced(data, den) ==
    LET g == GcdSet({den} \cup {data[t][c] : t \in DOMAIN data, c \in DOMAIN data[1]})
    IN  [data |-> [t \in DOMAIN data |-> [c \in DOMAIN data[t] |-> data[t][c] \div g]],
         den |-> den \div g]

\* Mutant of updateControlSequence: the exponents are not divided by their sum.
updateControlSequence_unnormalised(o) ==
    LET w == exponents(o.costs)
        ctl == o.state.controls
        weighted(t, c) == SumTo([b \in Batches |-> ctl[b][t][c] * w[b]], BatchSize)
        data == [t \in 1..o.settings.time_steps |->
                    [c \in Cols(isHolonomic(o)) |-> weighted(t, c)]]
    IN  [o EXCEPT !.control_sequence = Reduced(data, o.state.den)]

updateControlSequence(o) ==
    LET w == exponents(o.costs)
        total == SumTo(w, BatchSize)
        ctl == o.state.controls
        weighted(t, c) == SumTo([b \in Batches |-> ctl[b][t][c] * w[b]], BatchSize)
        data == [t \in 1..o.settings.time_steps |->
                    [c \in Cols(isHolonomic(o)) |-> weighted(t, c)]]
    IN  [o EXCEPT !.control_sequence = Reduced(data, o.state.den * total)]

(***************************************************************************)
(* Optimizer::fallback(fail).  Returns the optimizer, the static counter   *)
(* and the outcome: "done" (return false), "retry" (return true) or        *)
(* "throw" (std::runtime_error "Optimizer fail to compute path").          *)
(* n_fail counts the calls with fail = true in the current tick.           *)
(***************************************************************************)
\* Mutant of fallback: reset() only on the path that retries.
fallback_noResetOnThrow(o, cnt) ==
    IF ~o.fail_flag
    THEN [o |-> o, counter |-> 0, outcome |-> "done"]
    ELSE LET f == [o EXCEPT !.n_fail = @ + 1]
         IN  IF cnt > o.settings.retry_attempt_limit
             THEN [o |-> f, counter |-> 0, outcome |-> "throw"]
             ELSE [o |-> reset(f), counter |-> cnt + 1, outcome |-> "retry"]

\* Mutant of fallback: a failed attempt is retried whatever the counter is.
fallback_retryAlways(o, cnt) ==
    IF ~o.fail_flag
    THEN [o |-> o, counter |-> 0, outcome |-> "done"]
    ELSE [o |-> [reset(o) EXCEPT !.n_reset = o.n_reset], counter |-> cnt, outcome |-> "retry"]

\* Mutant of fallback: the counter is kept when the fatal error is raised.
fallback_noClearOnThrow(o, cnt) ==
    IF ~o.fail_flag
    THEN [o |-> o, counter |-> 0, outcome |-> "done"]
    ELSE LET r == reset([o EXCEPT !.n_fail = @ + 1])
         IN  IF cnt > o.settings.retry_attempt_limit
             THEN [o |-> r, counter |-> cnt, outcome |-> "throw"]
             ELSE [o |-> r, counter |-> cnt + 1, outcome |-> "retry"]

fallback(o, cnt) ==
    IF ~o.fail_flag
    THEN [o |-> o, counter |-> 0, outcome |-> "done"]
    ELSE LET r == reset([o EXCEPT !.n_fail = @ + 1])
         IN  IF cnt > o.settings.retry_attempt_limit
             THEN [o |-> r, counter |-> 0, outcome |-> "throw"]
             ELSE [o |-> r, counter |-> cnt + 1, outcome |-> "retry"]

(***************************************************************************)
(* utils::toTwistStamped on one row of the control sequence.               *)
(***************************************************************************)
toTwistStamped(row, den, holonomic) ==
    [linear_x |-> row.vx,
     linear_y |-> IF holonomic THEN row.vy ELSE 0,
     angular_z |-> row.wz,
     den |-> den]

(***************************************************************************)
(* Optimizer::getControlFromSequenceAsTwist.                               *)
(***************************************************************************)
\* Mutant of ControlOffset: row 0 whatever shift_control_sequence is.
ControlOffset_first(o) == 0

ControlOffset(o) == IF o.settings.shift_control_sequence THEN 1 ELSE 0

getControlFromSequenceAsTwist(o) ==
    toTwistStamped(o.control_sequence.data[ControlOffset(o) + 1],
                   o.control_sequence.den, isHolonomic(o))

(***************************************************************************)
(* Optimizer::shiftControlSequence: xt::roll(data, -1, 0), then the last   *)
(* row takes the value of the row before it.                               *)
(***************************************************************************)
roll(data) ==
    LET H == Len(data) IN [t \in 1..H |-> data[(t % H) + 1]]

\* Mutant of shiftControlSequence: the roll alone, the last row left as rolled.
shiftControlSequence_rollOnly(o) ==
    [o EXCEPT !.control_sequence.data = roll(o.control_sequence.data)]

shiftControlSequence(o) ==
    LET H == o.settings.time_steps
        rolled == roll(o.control_sequence.data)
    IN  [o EXCEPT !.control_sequence.data = [rolled EXCEPT ![H] = rolled[H - 1]]]

\* Mutant of setSpeedLimit: a percentage scales the active constraints.
setSpeedLimit_compound(o, speed_limit, percentage) ==
    LET base == o.settings.base_constraints
        cur == o.settings.constraints
    IN
    IF speed_limit = NO_SPEED_LIMIT
    THEN [o EXCEPT !.settings.constraints = [vx |-> base.vx, vy |-> base.vy, wz |-> base.wz]]
    ELSE IF percentage
         THEN [o EXCEPT !.settings.constraints =
                  [vx |-> (cur.vx * speed_limit) \div 100,
                   vy |-> (cur.vy * speed_limit) \div 100,
                   wz |-> (cur.wz * speed_limit) \div 100]]
         ELSE [o EXCEPT !.settings.constraints =
                  [vx |-> speed_limit,
                   vy |-> (base.vx * speed_limit) \div base.vx,
                   wz |-> (base.wz * speed_limit) \div base.vx]]

(***************************************************************************)
(* Optimizer::setSpeedLimit.                                               *)
(***************************************************************************)
setSpeedLimit(o, speed_limit, percentage) ==
    LET base == o.settings.base_constraints IN
    IF speed_limit = NO_SPEED_LIMIT
    THEN [o EXCEPT !.settings.constraints = [vx |-> base.vx, vy |-> base.vy, wz |-> base.wz]]
    ELSE IF percentage
         THEN \* ratio = speed_limit / 100.0
              [o EXCEPT !.settings.constraints =
                  [vx |-> (base.vx * speed_limit) \div 100,
                   vy |-> (base.vy * speed_limit) \div 100,
                   wz |-> (base.wz * speed_limit) \div 100]]
         ELSE \* ratio = speed_limit / base.vx
              [o EXCEPT !.settings.constraints =
                  [vx |-> speed_limit,
                   vy |-> (base.vx * speed_limit) \div base.vx,
                   wz |-> (base.wz * speed_limit) \div base.vx]]

(***************************************************************************)
(* Optimizer::initialize: getParams, setMotionModel, setOffset, reset.     *)
(* The fields after `pc` observe the run: the twist the last evalControl   *)
(* returned, whether it threw, the resets and failed attempts of the       *)
(* current tick, the ticks and setSpeedLimit calls so far, the arguments   *)
(* of the last setSpeedLimit call, whether the tensors are as reset() left *)
(* them, the initialize calls so far, the motion model name and controller *)
(* period of the last one and the binding it found, the error it raised,   *)
(* the shape getOptimizedTrajectory last returned.                         *)
(***************************************************************************)
NoTwist == [linear_x |-> 0, linear_y |-> 0, angular_z |-> 0, den |-> 0]

NoCall == [speed_limit |-> -1, percentage |-> FALSE]

\* No utils function has been called.
NoUtil == [fn |-> "none"]

\* The shape of a default-constructed xt::xtensor<double, 3>.
EmptyShape == <<0, 0, 0>>

\* No tensor has been returned by getOptimizedTrajectory.
NoShape == << >>

\* motion_model_ and the two idx layouts before the first setMotionModel.
NoBinding == [motion_model |-> "none", state_idx |-> FALSE, control_sequence_idx |-> FALSE]

initialize(model, H, iterations, retry_limit, shift, base) ==
    reset([settings |-> [model_dt |-> ModelDt,
                         time_steps |-> H,
                         iteration_count |-> iterations,
                         retry_attempt_limit |-> retry_limit,
                         shift_control_sequence |-> shift,
                         base_constraints |-> base,
                         constraints |-> base],
           motion_model |-> model,
           state_idx |-> isHolonomicModel(model),
           control_sequence_idx |-> isHolonomicModel(model),
           state |-> [controls |-> << >>, den |-> 1, dt |-> 0],
           control_sequence |-> [data |-> << >>, den |-> 1],
           costs |-> << >>,
           generated_trajectories |-> EmptyShape,
           fail_flag |-> FALSE,
           pc |-> "idle",
           i |-> 0,
           control |-> NoTwist,
           thrown |-> FALSE,
           attempt_hit |-> FALSE,
           n_reset |-> 0,
           n_fail |-> 0,
           ticks |-> 0,
           limit_calls |-> 0,
           last_call |-> NoCall,
           after_reset |-> FALSE,
           n_init |-> 1,
           last_init |-> [model |-> model, model_dt |-> ModelDt,
                          period |-> IF shift THEN ModelDt ELSE ModelDt \div 2,
                          prev |-> NoBinding],
           error |-> "none",
           optimized_shape |-> NoShape])

\* One optimizer with the default retry_attempt_limit, every motion model and
\* horizon, base constraints with vy_max != vx_max, two noise patterns, equal and
\* unequal costs, a percentage and an absolute speed limit.
Init ==
    /\ \E model \in MotionModels, H \in 2..MaxTimeSteps, n \in 1..MaxIterationCount,
          shift \in BOOLEAN, base \in {b \in BaseConstraintSets : b.vy # b.vx} :
            opt = [id \in {1} |->
                      initialize(model, H, n, DefaultRetryAttemptLimit, shift, base)]
    /\ counter = 0
    /\ util = NoUtil
    /\ env = [noise |-> {k \in NoisePatterns : k <= 2},
              costs |-> {add \in CostContributions : \A b \in Batches : b > 1 => add[b] = 0},
              limits |-> {call \in SpeedLimitCalls : call.speed_limit \in {50, 10}}]

(***************************************************************************)
(* evalControl, step by step.                                              *)
(***************************************************************************)
\* evalControl is entered: prepare().
EvalControl(id) ==
    LET o == opt[id] IN
    /\ o.pc = "idle"
    /\ (o.ticks + 1) * o.settings.iteration_count <= MaxPasses
    /\ opt' = [opt EXCEPT ![id] =
                  [prepare(o) EXCEPT !.pc = "generate", !.i = 0, !.control = NoTwist,
                                     !.thrown = FALSE, !.attempt_hit = FALSE,
                                     !.n_reset = 0, !.n_fail = 0, !.ticks = @ + 1]]
    /\ UNCHANGED <<counter, env, util>>

\* optimize(), one iteration: generateNoisedTrajectories()
GenerateNoisedTrajectories(id) ==
    LET o == opt[id] IN
    /\ o.pc = "generate"
    /\ \E k \in env.noise :
          opt' = [opt EXCEPT ![id] = [generateNoisedTrajectories(o, k) EXCEPT !.pc = "score"]]
    /\ UNCHANGED <<counter, env, util>>

\* optimize(), one iteration: critic_manager_.evalTrajectoriesScores(critics_data_)
EvalTrajectoriesScores(id) ==
    LET o == opt[id] IN
    /\ o.pc = "score"
    /\ \E add \in env.costs, hit \in BOOLEAN :
          opt' = [opt EXCEPT ![id] = [evalTrajectoriesScores(o, add, hit) EXCEPT !.pc = "update"]]
    /\ UNCHANGED <<counter, env, util>>

\* optimize(), one iteration: updateControlSequence(), and the loop's ++i
UpdateControlSequence(id) ==
    LET o == opt[id] IN
    /\ o.pc = "update"
    /\ opt' = [opt EXCEPT ![id] =
                  [updateControlSequence(o) EXCEPT
                      !.i = @ + 1,
                      !.pc = IF o.i + 1 < o.settings.iteration_count
                             THEN "generate" ELSE "fallback"]]
    /\ UNCHANGED <<env, util>>
    /\ UNCHANGED counter

\* while (fallback(critics_data_.fail_flag))
Fallback(id) ==
    LET o == opt[id]
        r == fallback(o, counter)
    IN  /\ o.pc = "fallback"
        /\ counter' = r.counter
        /\ opt' = [opt EXCEPT ![id] =
               IF r.outcome = "done" THEN [r.o EXCEPT !.pc = "control"]
               ELSE IF r.outcome = "retry"
                    THEN [r.o EXCEPT !.pc = "generate", !.i = 0, !.attempt_hit = FALSE]
                    ELSE [r.o EXCEPT !.pc = "idle", !.thrown = TRUE]]
        /\ UNCHANGED <<env, util>>

\* auto control = getControlFromSequenceAsTwist(plan.header.stamp)
GetControl(id) ==
    LET o == opt[id] IN
    /\ o.pc = "control"
    /\ opt' = [opt EXCEPT ![id] =
                  [o EXCEPT !.control = getControlFromSequenceAsTwist(o), !.pc = "shift"]]
    /\ UNCHANGED <<counter, env, util>>

\* if (settings_.shift_control_sequence) shiftControlSequence(); return control
ShiftAndReturn(id) ==
    LET o == opt[id] IN
    /\ o.pc = "shift"
    /\ opt' = [opt EXCEPT ![id] =
                  [(IF o.settings.shift_control_sequence THEN shiftControlSequence(o) ELSE o)
                      EXCEPT !.pc = "idle"]]
    /\ UNCHANGED <<counter, env, util>>

\* The host calls setSpeedLimit between ticks.
SetSpeedLimit(id) ==
    LET o == opt[id] IN
    /\ o.pc = "idle"
    /\ o.limit_calls < MaxSpeedLimitCalls
    /\ \E call \in env.limits :
          opt' = [opt EXCEPT ![id] =
                     [setSpeedLimit(o, call.speed_limit, call.percentage) EXCEPT
                         !.limit_calls = @ + 1, !.last_call = call]]
    /\ UNCHANGED <<counter, env, util>>

\* One optimizer under every retry_attempt_limit and both base constraint
\* sets, with one noise pattern, equal costs and every setSpeedLimit call.
InitAllConfigs ==
    /\ \E model \in MotionModels, n \in 1..MaxIterationCount, limit \in 0..MaxRetryLimit,
          shift \in BOOLEAN, base \in BaseConstraintSets :
            opt = [id \in {1} |-> initialize(model, 2, n, limit, shift, base)]
    /\ counter = 0
    /\ util = NoUtil
    /\ env = [noise |-> {1},
              costs |-> {[b \in Batches |-> 0]},
              limits |-> SpeedLimitCalls]

\* Two optimizers in one process (one per controller), same configuration.
InitShared ==
    /\ \E limit \in 0..MaxRetryLimit :
            opt = [id \in {1, 2} |->
                      initialize("DiffDrive", 2, 1, limit, FALSE,
                                 CHOOSE b \in BaseConstraintSets : b.vy = b.vx)]
    /\ counter = 0
    /\ util = NoUtil
    /\ env = [noise |-> {1},
              costs |-> {[b \in Batches |-> 0]},
              limits |-> {call \in SpeedLimitCalls : call.speed_limit = 50}]

Optimizers == DOMAIN opt

Next ==
    \/ \E id \in Optimizers : EvalControl(id)
    \/ \E id \in Optimizers : GenerateNoisedTrajectories(id)
    \/ \E id \in Optimizers : EvalTrajectoriesScores(id)
    \/ \E id \in Optimizers : UpdateControlSequence(id)
    \/ \E id \in Optimizers : Fallback(id)
    \/ \E id \in Optimizers : GetControl(id)
    \/ \E id \in Optimizers : ShiftAndReturn(id)
    \/ \E id \in Optimizers : SetSpeedLimit(id)

Spec == Init /\ [][Next]_vars

SpecAllConfigs == InitAllConfigs /\ [][Next]_vars

SpecShared == InitShared /\ [][Next]_vars

\* The steps inside evalControl, after its prepare().
TickStep(id) ==
    \/ GenerateNoisedTrajectories(id)
    \/ EvalTrajectoriesScores(id)
    \/ UpdateControlSequence(id)
    \/ Fallback(id)
    \/ GetControl(id)
    \/ ShiftAndReturn(id)

\* evalControl is straight-line code around two loops: once called it keeps
\* taking steps, the noise generator and the critics returning from each call.
\* Each step is weakly fair; for GenerateNoisedTrajectories and
\* UpdateControlSequence, enabled exactly at the program points "generate"
\* and "update", WF_vars is written with the program point for ENABLED.
SpecAllConfigsFair ==
    /\ InitAllConfigs
    /\ [][Next]_vars
    /\ ([]<>(opt[1].pc # "generate") \/ []<><<GenerateNoisedTrajectories(1)>>_vars)
    /\ WF_vars(EvalTrajectoriesScores(1))
    /\ ([]<>(opt[1].pc # "update") \/ []<><<UpdateControlSequence(1)>>_vars)
    /\ WF_vars(Fallback(1))
    /\ WF_vars(GetControl(1))
    /\ WF_vars(ShiftAndReturn(1))

(***************************************************************************)
(*                 Configuration: initialize and its parts                 *)
(***************************************************************************)

\* The motion_model parameter: the three valid names and an unknown one.
ModelNames == MotionModels \cup {"Bicycle"}

\* 1.0 / controller_frequency for controller_frequency = 0.0, the default.
Infinity == 2000000000

\* model_dt as loaded by getParams or set by a parameter update: 0.1 s, 0.05 s.
ModelDts == {ModelDt, ModelDt \div 2}

\* controller_period = 1.0 / controller_frequency, the double the division
\* produced, in units of 0.5e-6 s: well below model_dt, below it by less than
\* eps, equal to it, above it by less than eps, well above it, infinite.
ControllerPeriods ==
    {ModelDt \div 2, ModelDt - 1, ModelDt, ModelDt + 1, 2 * ModelDt, Infinity}

(***************************************************************************)
(* Optimizer::setOffset.  The comparison controller_period < model_dt is   *)
(* made first, so the tolerance test only sees periods >= model_dt.        *)
(* A period below model_dt leaves shift_control_sequence as it was.        *)
(***************************************************************************)
setOffset(o, controller_period) ==
    IF controller_period < o.settings.model_dt
    THEN o
    ELSE IF Abs(controller_period - o.settings.model_dt) < Eps
         THEN [o EXCEPT !.settings.shift_control_sequence = TRUE]
         ELSE [o EXCEPT !.error = "offset"]

(***************************************************************************)
(* Optimizer::setMotionModel.  For an unknown name the argument of the     *)
(* runtime_error is a std::string built from two char pointers, that is   *)
(* the range constructor over the format literal and model.c_str(): two    *)
(* unrelated pointers, undefined behaviour.  The build may throw the       *)
(* runtime_error with some text, throw length_error or bad_alloc from the  *)
(* string constructor, or fault while copying the range.  In each case the *)
(* statements after the if chain are not reached.                          *)
(***************************************************************************)
UnknownModelOutcomes == {"runtime_error", "string_error", "crash"}

setMotionModel(o, model, outcome) ==
    IF model \in MotionModels
    THEN [o EXCEPT !.motion_model = model,
                   !.state_idx = isHolonomicModel(model),
                   !.control_sequence_idx = isHolonomicModel(model)]
    ELSE [o EXCEPT !.error = outcome]

(***************************************************************************)
(* Optimizer::getParams: the settings are loaded, the constraints set to   *)
(* the base constraints, then setMotionModel, then setOffset.              *)
(***************************************************************************)
getParams(o, model_dt, H, iterations, base, model, controller_period, outcome) ==
    LET loaded == [o EXCEPT !.settings.model_dt = model_dt,
                            !.settings.time_steps = H,
                            !.settings.iteration_count = iterations,
                            !.settings.retry_attempt_limit = DefaultRetryAttemptLimit,
                            !.settings.base_constraints = base,
                            !.settings.constraints = base,
                            !.after_reset = FALSE]
        bound == setMotionModel(loaded, model, outcome)
    IN  IF bound.error # "none" THEN bound ELSE setOffset(bound, controller_period)

\* The binding setMotionModel writes: motion_model_ and the two idx layouts.
Binding(o) ==
    [motion_model |-> o.motion_model, state_idx |-> o.state_idx,
     control_sequence_idx |-> o.control_sequence_idx]

\* An Optimizer as constructed, before initialize.
Constructed ==
    [settings |-> [model_dt |-> 0, time_steps |-> 0, iteration_count |-> 0,
                   retry_attempt_limit |-> 0, shift_control_sequence |-> FALSE,
                   base_constraints |-> [vx |-> 0, vy |-> 0, wz |-> 0],
                   constraints |-> [vx |-> 0, vy |-> 0, wz |-> 0]],
     motion_model |-> "none",
     state_idx |-> FALSE,
     control_sequence_idx |-> FALSE,
     state |-> [controls |-> << >>, den |-> 1, dt |-> 0],
     control_sequence |-> [data |-> << >>, den |-> 1],
     costs |-> << >>,
     generated_trajectories |-> EmptyShape,
     fail_flag |-> FALSE,
     pc |-> "created",
     i |-> 0,
     control |-> NoTwist,
     thrown |-> FALSE,
     attempt_hit |-> FALSE,
     n_reset |-> 0,
     n_fail |-> 0,
     ticks |-> 0,
     limit_calls |-> 0,
     last_call |-> NoCall,
     after_reset |-> FALSE,
     n_init |-> 0,
     last_init |-> [model |-> "none", model_dt |-> 0, period |-> 0, prev |-> NoBinding],
     error |-> "none",
     optimized_shape |-> NoShape]

(***************************************************************************)
(* Optimizer::initialize on a constructed, failed or idle optimizer:       *)
(* getParams, the critics' configuration, reset.  An exception of          *)
(* getParams leaves initialize before reset; a fault ends the process.     *)
(***************************************************************************)
Initialize(id) ==
    LET o == opt[id] IN
    /\ o.pc \in {"created", "failed", "idle"}
    /\ o.n_init < MaxInits
    /\ \E model \in ModelNames, model_dt \in ModelDts, H \in 2..MaxTimeSteps,
          controller_period \in ControllerPeriods, outcome \in UnknownModelOutcomes :
            LET called == [o EXCEPT !.n_init = @ + 1,
                                    !.last_init = [model |-> model,
                                                   model_dt |-> model_dt,
                                                   period |-> controller_period,
                                                   prev |-> Binding(o)],
                                    !.error = "none",
                                    !.optimized_shape = NoShape]
                params == getParams(called, model_dt, H, 1, CHOOSE b \in BaseConstraintSets : b.vy = b.vx,
                                    model, controller_period, outcome)
            IN  /\ model \in MotionModels => outcome = "runtime_error"
                /\ opt' = [opt EXCEPT ![id] =
                       IF params.error = "crash" THEN [params EXCEPT !.pc = "crashed"]
                       ELSE IF params.error # "none" THEN [params EXCEPT !.pc = "failed"]
                       ELSE [reset(params) EXCEPT !.pc = "idle", !.i = 0,
                                                  !.control = NoTwist, !.thrown = FALSE,
                                                  !.attempt_hit = FALSE, !.n_reset = 0,
                                                  !.n_fail = 0, !.ticks = 0]]
    /\ UNCHANGED <<counter, env, util>>

(***************************************************************************)
(* The post-update callback getParams registers with the parameters        *)
(* handler: after a dynamic update of model_dt or time_steps, reset().     *)
(***************************************************************************)
ParametersUpdate(id) ==
    LET o == opt[id] IN
    /\ o.pc = "idle"
    /\ \E model_dt \in ModelDts, H \in 2..MaxTimeSteps :
          opt' = [opt EXCEPT ![id] =
                     [reset([o EXCEPT !.settings.model_dt = model_dt,
                                      !.settings.time_steps = H,
                                      !.optimized_shape = NoShape])
                          EXCEPT !.n_reset = o.n_reset]]
    /\ UNCHANGED <<counter, env, util>>

(***************************************************************************)
(* Optimizer::getOptimizedTrajectory.  A local State of batch one holds    *)
(* the control sequence; the output tensor is allocated with the shape of  *)
(* generated_trajectories_, filled by the integrator and squeezed.         *)
(***************************************************************************)
\* TrajectoryIntegrator::integrate writes x, y, yaw into the tensor it is
\* given, which keeps its shape.
integrate(trajectories, H) == trajectories

\* xt::squeeze: the dimensions of extent one are removed.
squeeze(shape) == SelectSeq(shape, LAMBDA d : d # 1)

getOptimizedTrajectory(o) ==
    LET trajectories == o.generated_trajectories
    IN  squeeze(integrate(trajectories, o.settings.time_steps))

GetOptimizedTrajectory(id) ==
    LET o == opt[id] IN
    /\ o.pc = "idle"
    /\ opt' = [opt EXCEPT ![id].optimized_shape = getOptimizedTrajectory(o)]
    /\ UNCHANGED <<counter, env, util>>

\* An optimizer as constructed; one noise pattern, costs the critics leave equal.
InitLifecycle ==
    /\ opt = [id \in {1} |-> Constructed]
    /\ counter = 0
    /\ util = NoUtil
    /\ env = [noise |-> {1},
              costs |-> {add \in CostContributions : \A b \in Batches : add[b] = 0},
              limits |-> {}]

NextLifecycle ==
    \/ \E id \in Optimizers : Initialize(id)
    \/ \E id \in Optimizers : ParametersUpdate(id)
    \/ \E id \in Optimizers : GetOptimizedTrajectory(id)
    \/ \E id \in Optimizers : EvalControl(id)
    \/ \E id \in Optimizers : GenerateNoisedTrajectories(id)
    \/ \E id \in Optimizers : EvalTrajectoriesScores(id)
    \/ \E id \in Optimizers : UpdateControlSequence(id)
    \/ \E id \in Optimizers : Fallback(id)
    \/ \E id \in Optimizers : GetControl(id)
    \/ \E id \in Optimizers : ShiftAndReturn(id)

SpecLifecycle == InitLifecycle /\ [][NextLifecycle]_vars

(***************************************************************************)
(*              mppi::utils::withinPositionGoalTolerance                   *)
(* Positions are in units of 0.01 m.                                       *)
(***************************************************************************)

\* TestGoalChecker::getTolerances: the position tolerances it reports (0.25 m).
getTolerances_none == [x |-> 0, y |-> 0]

getTolerances == [x |-> 25, y |-> 25]

\* The explicit tolerance of the test and a wider one.
Tolerances == {25, 50}

\* The robot pose of the test, (10.0, 1.0).
RobotPose == [x |-> 1000, y |-> 100]

\* Final path poses: the four of the test ((0, 0), (9.8, 0.95), (10.0, 0.76),
\* (9.76, 1.0)) and a grid that crosses both tolerances around the robot pose.
GoalXs == {0, 949, 951, 974, 976, 980, 1000, 1024, 1026, 1051}

GoalYs == {0, 49, 51, 74, 76, 95, 100, 124, 126, 151}

\* toTensor(path) for a path of two poses; the first one is at the origin, as
\* path.poses.resize(2) leaves it, or at the robot.
Paths ==
    {<<first, [x |-> gx, y |-> gy]>> :
        first \in {[x |-> 0, y |-> 0], RobotPose}, gx \in GoalXs, gy \in GoalYs}

\* Squared Euclidean distance of two positions.
DistSq(a, b) == (a.x - b.x) * (a.x - b.x) + (a.y - b.y) * (a.y - b.y)

\* The explicit-tolerance overload: the distance of the robot to the last pose
\* of the path is below the tolerance.
withinPositionGoalTolerance(pose_tolerance, robot, path) ==
    DistSq(robot, path[Len(path)]) < pose_tolerance * pose_tolerance

\* The goal-checker overload: false without a goal checker, else the explicit
\* overload with the position tolerance the checker reports.
withinPositionGoalToleranceOfChecker(goal_checker, robot, path) ==
    IF goal_checker = "null"
    THEN FALSE
    ELSE withinPositionGoalTolerance(getTolerances.x, robot, path)

\* One pair of calls of TEST(UtilsTests, WithTolTests): both overloads on the
\* same pose and path.
CallWithinPositionGoalTolerance ==
    /\ \E goal_checker \in {"null", "TestGoalChecker"}, tolerance \in Tolerances,
          path \in Paths :
            util' = [fn |-> "withinPositionGoalTolerance",
                     goal_checker |-> goal_checker,
                     tolerance |-> tolerance,
                     pose |-> RobotPose,
                     path |-> path,
                     by_checker |->
                         withinPositionGoalToleranceOfChecker(goal_checker, RobotPose, path),
                     by_tolerance |->
                         withinPositionGoalTolerance(tolerance, RobotPose, path)]
    /\ UNCHANGED <<opt, counter, env>>

\* No optimizer; the utils functions are free functions.
InitUtils ==
    /\ opt = << >>
    /\ counter = 0
    /\ env = [noise |-> {}, costs |-> {}, limits |-> {}]
    /\ util = NoUtil

NextUtils == CallWithinPositionGoalTolerance

SpecUtils == InitUtils /\ [][NextUtils]_vars

(***************************************************************************)
(*                              Properties                                 *)
(***************************************************************************)

\* C1 (as claimed): the fatal error is raised as soon as the number of
\* consecutive failed attempts of the tick exceeds retry_attempt_limit, and
\* never while it does not exceed it.
C1_FatalAsSoonAsLimitExceeded ==
    \A id \in Optimizers :
        LET o == opt[id] IN
        /\ o.n_fail > o.settings.retry_attempt_limit => o.thrown
        /\ o.thrown => o.n_fail > o.settings.retry_attempt_limit

\* C2 (as claimed): when the fatal error surfaces after N failed attempts,
\* reset() has been called N + 1 times.
C2_ResetsAreFailuresPlusOne ==
    \A id \in Optimizers :
        opt[id].thrown => opt[id].n_reset = opt[id].n_fail + 1

\* C2 (amended): when the fatal error surfaces after N failed attempts,
\* N > retry_attempt_limit, reset() has been called exactly N times in the tick:
\* once per failed attempt, the one that raises included.
C2_ResetsEqualFailures ==
    \A id \in Optimizers :
        LET o == opt[id] IN
        o.thrown => /\ o.n_fail > o.settings.retry_attempt_limit
                    /\ o.n_reset = o.n_fail

C2_Witness ==
    \E id \in Optimizers :
        /\ opt[id].thrown
        /\ opt[id].n_fail > opt[id].settings.retry_attempt_limit
        /\ opt[id].n_fail >= 3

\* C3 (as claimed): a retry in which no critic set fail_flag, made while the
\* failures so far do not exceed retry_attempt_limit, reaches fallback with the
\* flag clear, so that evalControl stops retrying and returns a command.
C3_CleanRetryRecovers ==
    \A id \in Optimizers :
        LET o == opt[id] IN
        (/\ o.pc = "fallback"
         /\ o.n_fail >= 1
         /\ o.n_fail <= o.settings.retry_attempt_limit
         /\ ~o.attempt_hit)
            => ~o.fail_flag

\* C4 (as claimed): with two optimizers in the process, the number of failed
\* attempts an optimizer tolerates before it raises the fatal error is the one
\* it tolerates alone (retry_attempt_limit + 2 calls of fallback(true)),
\* whatever the other optimizer does.
C4_ToleranceUnaffectedByOtherInstance ==
    \A id \in Optimizers :
        LET o == opt[id] IN
        o.thrown => o.n_fail = o.settings.retry_attempt_limit + 2

\* C5: the step that ends evalControl maps U_before to U_after with
\* U_after[t] = U_before[t+1] for t < H-1 and U_after[H-1] = U_before[H-1] when
\* shift_control_sequence is on (H >= 2), and leaves U unchanged when it is off.
C5_WarmStartContinuity ==
    [][\A id \in Optimizers :
          (opt[id].pc = "shift" /\ opt'[id].pc = "idle") =>
              LET before == opt[id].control_sequence
                  after == opt'[id].control_sequence
                  H == opt[id].settings.time_steps
              IN  IF opt[id].settings.shift_control_sequence
                  THEN /\ after.den = before.den
                       /\ Len(after.data) = H
                       /\ \A t \in 1..(H - 1) : after.data[t] = before.data[t + 1]
                       /\ after.data[H] = before.data[H]
                  ELSE after = before]_vars

C5_Witness ==
    \E id \in Optimizers :
        LET o == opt[id] IN
        /\ o.pc = "idle" /\ o.ticks >= 1 /\ ~o.thrown /\ o.control # NoTwist
        /\ o.settings.shift_control_sequence
        /\ o.settings.time_steps = 3
        /\ o.control_sequence.data[1] # o.control_sequence.data[2]
        /\ o.control_sequence.data[2] = o.control_sequence.data[3]

\* C6: the command evalControl returns is row 0 of the optimized U when
\* shift_control_sequence is off and row 1 when it is on, read before the shift;
\* it carries vy only for a holonomic model.
C6_ReturnedCommand ==
    \A id \in Optimizers :
        LET o == opt[id]
            U == o.control_sequence
            row == U.data[IF o.settings.shift_control_sequence THEN 2 ELSE 1]
        IN  o.pc = "shift" =>
                /\ o.control.linear_x = row.vx
                /\ o.control.angular_z = row.wz
                /\ o.control.linear_y = (IF o.motion_model = "Omni" THEN row.vy ELSE 0)
                /\ o.control.den = U.den

C6_Witness ==
    \E id \in Optimizers :
        LET o == opt[id] IN
        /\ o.pc = "shift"
        /\ o.settings.shift_control_sequence
        /\ o.motion_model = "Omni"
        /\ o.control_sequence.data[1] # o.control_sequence.data[2]
        /\ o.control.linear_y # 0
        /\ o.control.linear_x = o.control_sequence.data[2].vx

\* C7: after applyControlConstraints every sampled control is within the active
\* constraints: |cvx| <= constraints.vx, |cwz| <= constraints.wz and, holonomic,
\* |cvy| <= constraints.vy; after setSpeedLimit(50, true) on vx_max = 0.5
\* (20 units) every cvx lies in [-0.25, 0.25] (10 units).
C7_ControlsWithinConstraints ==
    \A id \in Optimizers :
        LET o == opt[id]
            k == o.settings.constraints
            den == o.state.den
        IN  o.pc = "score" =>
              \A b \in Batches, t \in 1..o.settings.time_steps :
                LET cell == o.state.controls[b][t] IN
                /\ Abs(cell.vx) <= k.vx * den
                /\ Abs(cell.wz) <= k.wz * den
                /\ o.motion_model = "Omni" => Abs(cell.vy) <= k.vy * den
                /\ (o.last_call = [speed_limit |-> 50, percentage |-> TRUE]
                        /\ o.settings.base_constraints.vx = 20)
                      => Abs(cell.vx) <= 10 * den

C7_Witness ==
    \E id \in Optimizers :
        LET o == opt[id] IN
        /\ o.pc = "score"
        /\ o.limit_calls = 2
        /\ o.last_call = [speed_limit |-> 50, percentage |-> TRUE]
        /\ o.motion_model = "Omni"
        /\ \E b \in Batches, t \in 1..o.settings.time_steps :
              /\ o.state.controls[b][t].vx = 10 * o.state.den
              /\ o.state.controls[b][t].vy = -6 * o.state.den
        /\ \E b \in Batches, t \in 1..o.settings.time_steps :
              o.state.controls[b][t].wz = -26 * o.state.den

\* C8 (as claimed): with the Ackermann model, once applyControlConstraints has
\* finished, |cwz| <= |cvx| / min_turning_r for every sampled control.
C8_AckermannRadiusBound ==
    \A id \in Optimizers :
        LET o == opt[id] IN
        (o.pc = "score" /\ o.motion_model = "Ackermann") =>
            \A b \in Batches, t \in 1..o.settings.time_steps :
                Abs(o.state.controls[b][t].wz)
                    <= Abs(o.state.controls[b][t].vx) * MinTurningRInv

\* C9 (as claimed): setSpeedLimit(limit, false), limit # NO_SPEED_LIMIT, sets
\* constraints.vx = limit, constraints.vy = base.vy * limit / base.vx and
\* constraints.wz = base.wz * limit / base.vx.
C9_AbsoluteLimitScalesProportionally ==
    \A id \in Optimizers :
        LET o == opt[id]
            base == o.settings.base_constraints
            limit == o.last_call.speed_limit
        IN  (o.last_call # NoCall /\ ~o.last_call.percentage /\ limit # NO_SPEED_LIMIT) =>
                o.settings.constraints =
                    [vx |-> limit,
                     vy |-> (base.vy * limit) \div base.vx,
                     wz |-> (base.wz * limit) \div base.vx]

\* C10: after any sequence of setSpeedLimit calls the active constraints are
\* those the last call alone gives on the base constraints: base * limit / 100
\* for a percentage, the base constraints for the NO_SPEED_LIMIT sentinel; the
\* base constraints are never modified.
ConstraintsOfLastCall(o) ==
    LET base == o.settings.base_constraints
        call == o.last_call
        fresh == [o EXCEPT !.settings.constraints = base]
    IN  /\ call = NoCall => o.settings.constraints = base
        /\ call # NoCall =>
              o.settings.constraints =
                  setSpeedLimit(fresh, call.speed_limit, call.percentage).settings.constraints
        /\ (call # NoCall /\ call.speed_limit = NO_SPEED_LIMIT) => o.settings.constraints = base
        /\ (call.percentage /\ call.speed_limit # NO_SPEED_LIMIT) =>
              o.settings.constraints =
                  [vx |-> (base.vx * call.speed_limit) \div 100,
                   vy |-> (base.vy * call.speed_limit) \div 100,
                   wz |-> (base.wz * call.speed_limit) \div 100]

C10_LastCallDecides ==
    [][\A id \in Optimizers :
          /\ opt'[id].settings.base_constraints = opt[id].settings.base_constraints
          /\ ConstraintsOfLastCall(opt'[id])]_vars

C10_Witness ==
    \E id \in Optimizers :
        LET o == opt[id] IN
        /\ o.limit_calls >= 2
        /\ o.last_call = [speed_limit |-> 25, percentage |-> TRUE]
        /\ o.settings.base_constraints = [vx |-> 20, vy |-> 12, wz |-> 52]
        /\ o.settings.constraints = [vx |-> 5, vy |-> 3, wz |-> 13]

\* C11 (as claimed): after initialize with a valid motion model, control
\* sequence shifting is enabled exactly when the controller period equals
\* model_dt within 1e-6 s on either side, and the initialization is rejected
\* with the period error exactly when the period is greater than model_dt
\* beyond that tolerance; a smaller period is accepted with shifting off.
C11_ShiftIffPeriodWithinTolerance ==
    \A id \in Optimizers :
        LET o == opt[id]
            call == o.last_init
            within == Abs(call.period - call.model_dt) < Eps
        IN  (o.n_init = 1 /\ o.pc # "created" /\ call.model \in MotionModels) =>
                /\ o.error = "offset" <=> (call.period > call.model_dt /\ ~within)
                /\ o.error = "none" => (o.settings.shift_control_sequence <=> within)

\* C12 (as claimed): setMotionModel with a name that is none of DiffDrive,
\* Omni, Ackermann raises a fatal error and leaves the motion model bound
\* before and both idx layouts unchanged; with a valid name it binds that
\* model and sets both layouts to its holonomy, holonomic only for Omni.
C12_InvalidNameRaisesAndKeepsBinding ==
    \A id \in Optimizers :
        LET o == opt[id]
            call == o.last_init
        IN  o.pc # "created" =>
                /\ call.model \notin MotionModels =>
                        /\ o.pc = "failed"
                        /\ o.error \in {"runtime_error", "string_error"}
                        /\ Binding(o) = call.prev
                /\ call.model \in MotionModels =>
                        /\ o.motion_model = call.model
                        /\ o.state_idx = (call.model = "Omni")
                        /\ o.control_sequence_idx = (call.model = "Omni")

C14_SoftmaxWeightedAverage ==
    \A id \in Optimizers :
        LET o == opt[id]
            c == o.costs
            U == o.control_sequence
            ctl == o.state.controls
            top == MaxCost(c)
            w == [b \in Batches |-> Pow2(top - c[b])]
            total == SumTo(w, BatchSize)
            \* the fractions a / b and x / y are equal (b, y > 0)
            SameFraction(a, b, x, y) ==
                /\ a \div Gcd(a, b) = x \div Gcd(x, y)
                /\ b \div Gcd(a, b) = y \div Gcd(x, y)
        IN  (o.pc = "fallback" \/ (o.pc = "generate" /\ o.i >= 1)) =>
                /\ \A b \in Batches : w[b] >= 1
                /\ \A a, b \in Batches :
                        /\ c[a] < c[b] => w[a] > w[b]
                        /\ c[a] = c[b] => w[a] = w[b]
                /\ \A t \in 1..o.settings.time_steps : \A col \in Cols(isHolonomic(o)) :
                        /\ SameFraction(U.data[t][col], U.den,
                                SumTo([b \in Batches |-> w[b] * ctl[b][t][col]], BatchSize),
                                o.state.den * total)
                        /\ (\A a, b \in Batches : c[a] = c[b]) =>
                               SameFraction(U.data[t][col], U.den,
                                   SumTo([b \in Batches |-> ctl[b][t][col]], BatchSize),
                                   o.state.den * BatchSize)

\* An update with unequal costs on samples that differ, whose result is not
\* the plain mean of the batch.
C14_Witness ==
    \E id \in Optimizers :
        LET o == opt[id]
            U == o.control_sequence
            ctl == o.state.controls
        IN  /\ o.pc = "fallback"
            /\ \E a, b \in Batches : o.costs[a] < o.costs[b]
            /\ U.data[1]["vx"] * o.state.den * BatchSize #
                   U.den * SumTo([b \in Batches |-> ctl[b][1]["vx"]], BatchSize)
            /\ U.data[1]["vx"] # 0

\* C15 (as claimed): getOptimizedTrajectory returns a tensor of shape (H, 3),
\* whatever the batch size and whether or not an evalControl has run, and
\* leaves the control sequence, the state, the costs and the generated
\* trajectories as they were.
C15_OptimizedTrajectoryIsHBy3 ==
    [][\A id \in Optimizers :
          (opt[id].pc = "idle" /\ opt'[id].pc = "idle"
              /\ opt'[id].optimized_shape # opt[id].optimized_shape
              /\ opt'[id].optimized_shape # NoShape) =>
                /\ opt'[id].optimized_shape = <<opt[id].settings.time_steps, 3>>
                /\ opt'[id].control_sequence = opt[id].control_sequence
                /\ opt'[id].state = opt[id].state
                /\ opt'[id].costs = opt[id].costs
                /\ opt'[id].generated_trajectories = opt[id].generated_trajectories]_vars

\* The parts of C16 about the state, the control sequence and the costs:
\* their dimensions are those of the current batch_size and time_steps,
\* the control sequence and the costs are zero, dt is model_dt.
ResetStateControlsCosts(o) ==
    LET H == o.settings.time_steps IN
    /\ DOMAIN o.state.controls = Batches
    /\ \A b \in Batches : DOMAIN o.state.controls[b] = 1..H
    /\ o.state.dt = o.settings.model_dt
    /\ DOMAIN o.control_sequence.data = 1..H
    /\ \A t \in 1..H : \A c \in DOMAIN o.control_sequence.data[t] :
            o.control_sequence.data[t][c] = 0
    /\ DOMAIN o.costs = Batches
    /\ \A b \in Batches : o.costs[b] = 0

\* C16 (as claimed): after reset(), whether called by initialize, by the
\* parameter post-update callback or by fallback, the state, the control
\* sequence, the generated trajectories and the costs all have the dimensions
\* of the current batch_size and time_steps, the control sequence and the
\* costs are zero and every dt is model_dt.
C16_ResetSizesAllTensors ==
    \A id \in Optimizers :
        LET o == opt[id] IN
        o.after_reset =>
            /\ ResetStateControlsCosts(o)
            /\ o.generated_trajectories = <<BatchSize, o.settings.time_steps, 3>>

\* C17: for one optimizer the retry counter is zero at the start of every
\* evalControl tick, since both a successful attempt and the fatal error
\* clear it; during a tick it counts the failed attempts of that tick only,
\* so every tick, a tick after a failed one included, has the same budget of
\* retry_attempt_limit + 2 failures before the fatal error.
C17_CounterZeroBetweenTicks ==
    \A id \in Optimizers :
        LET o == opt[id] IN
        /\ o.pc = "idle" => counter = 0
        /\ o.pc \in {"generate", "score", "update", "fallback"} => counter = o.n_fail
        /\ o.thrown => o.n_fail = o.settings.retry_attempt_limit + 2

\* The second tick of an optimizer has ended in the fatal error after using
\* its whole budget, and the counter is cleared.
C17_Witness ==
    \E id \in Optimizers :
        LET o == opt[id] IN
        /\ o.pc = "idle"
        /\ o.ticks = 2
        /\ o.thrown
        /\ o.n_fail = o.settings.retry_attempt_limit + 2
        /\ o.settings.retry_attempt_limit >= 1
        /\ counter = 0

\* C18: the command evalControl returns lies within the constraints active
\* in that tick, |vx| <= vx_max, |wz| <= wz_max and, for a holonomic model,
\* |vy| <= vy_max, after any sequence of ticks, retries, resets and
\* setSpeedLimit calls.
C18_CommandWithinConstraints ==
    \A id \in Optimizers :
        LET o == opt[id]
            k == o.settings.constraints
            cmd == o.control
        IN  o.pc = "shift" =>
                /\ cmd.den > 0
                /\ Abs(cmd.linear_x) <= k.vx * cmd.den
                /\ Abs(cmd.angular_z) <= k.wz * cmd.den
                /\ isHolonomic(o) => Abs(cmd.linear_y) <= k.vy * cmd.den

\* A command returned in a later tick, under constraints lowered by
\* setSpeedLimit, with vx on the lowered bound.
C18_Witness ==
    \E id \in Optimizers :
        LET o == opt[id]
            k == o.settings.constraints
        IN  /\ o.pc = "shift"
            /\ o.ticks = 2
            /\ k.vx < o.settings.base_constraints.vx
            /\ Abs(o.control.linear_x) = k.vx * o.control.den

\* C19 (as claimed): the costs are all zero whenever the critics start to
\* evaluate an iteration, in the first iteration of a tick, in the second
\* and later iterations when iteration_count > 1, and in the attempts that
\* follow a fallback retry.
C19_CostsZeroAtEachEvaluation ==
    \A id \in Optimizers :
        LET o == opt[id] IN
        o.pc = "score" => \A b \in Batches : o.costs[b] = 0

\* An evalControl call is in progress.
InEvalControl == \E id \in Optimizers : opt[id].pc # "idle"

\* C20: every evalControl call terminates.  Whatever the critics do, a tick
\* makes at most retry_attempt_limit + 2 attempts of at most iteration_count
\* passes each, and a call in progress leads to its end: the command is
\* returned or the fatal error is raised.
C20_EvalControlTerminates ==
    /\ [](\A id \in Optimizers :
              /\ opt[id].n_fail <= opt[id].settings.retry_attempt_limit + 2
              /\ opt[id].i <= opt[id].settings.iteration_count)
    /\ InEvalControl ~>
          (\A id \in Optimizers :
              /\ opt[id].pc = "idle"
              /\ opt[id].thrown \/ opt[id].control # NoTwist)

\* A tick has ended in the fatal error after the longest run the
\* configuration allows: four attempts of two passes.
C20_Witness ==
    \E id \in Optimizers :
        LET o == opt[id] IN
        /\ o.pc = "idle"
        /\ o.thrown
        /\ o.settings.iteration_count = 2
        /\ o.settings.retry_attempt_limit = 2
        /\ o.n_fail = 4

====
